---------------------------- MODULE Spec2Model ----------------------------
(***************************************************************************)
(* Model of Project2_Feature_Detection/features.py: the Harris keypoint    *)
(* detector, the simple and MOPS descriptors and the SSD / ratio matchers. *)
(*                                                                         *)
(* Numbers.  Real-valued quantities are kept exact:                        *)
(*   - a Euclidean distance d is stored as its square d^2 (an integer);    *)
(*     sqrt is strictly increasing, so argmin and comparisons agree;       *)
(*   - a match score is a record [num, den] standing for sqrt(num/den),    *)
(*     reduced to lowest terms, so two scores are equal as reals iff the   *)
(*     records are equal.                                                   *)
(* Sequences are 1-based; the indices stored in matches and keypoints are  *)
(* the 0-based indices of the Python code.                                 *)
(***************************************************************************)
EXTENDS Integers, Sequences, FiniteSets, TLC

VARIABLES
    desc1,      \* matcher argument desc1: [ndim, shape, rows]
    desc2,      \* matcher argument desc2
    mcall,      \* which matchFeatures ran: "none", "SSD" or "Ratio"
    mresult,    \* outcome of the call: [kind, value]
    mbuilt,     \* the local list `matches` when the call ended
    mdist,      \* the local matrix `dist` when the call ended (<<>>: never computed)
    image,      \* the BGR image handed to a detector or a descriptor
    hpc,        \* position inside the Harris detector
    harrisImage,       \* Harris score per pixel (unit: 1 / HarrisUnit)
    orientationImage,  \* gradient direction per pixel
    harrisMaxImage,    \* local-maxima mask
    features,   \* the keypoints appended so far
    hy,         \* loop variable y of detectKeypoints
    hx,         \* loop variable x of detectKeypoints
    keypoints,  \* the keypoint list handed to a descriptor
    dcall,      \* which describeFeatures ran: "none", "Simple" or "MOPS"
    dresult,    \* outcome of the call: [kind, rows]
    dtransMx    \* the matrices handed to cv2.warpAffine, one per keypoint (in fifths)

mvars == <<desc1, desc2, mcall, mresult, mbuilt, mdist>>
hvars == <<image, hpc, harrisImage, orientationImage, harrisMaxImage, features, hy, hx>>
dvars == <<keypoints, dcall, dresult, dtransMx>>
vars == <<mvars, hvars, dvars>>

(***************************************************************************)
(* Bounds of the matcher inputs.                                           *)
(***************************************************************************)
MaxQuery == 2
MaxTrain == 2

\* Descriptor rows the inputs are drawn from, per column count.  Distances
\* below the ratio matcher's 1000, equal to 0, tied, and above 1000 all occur.
DescRows(cols) ==
    IF cols = 1 THEN {<<0>>, <<1>>, <<3>>, <<2000>>}
    ELSE {<<0, 0>>, <<1, 0>>, <<1, 1>>, <<2000, 1>>}

RECURSIVE SeqsUpTo(_, _)
SeqsUpTo(S, n) ==
    IF n = 0 THEN {<<>>}
    ELSE LET shorter == SeqsUpTo(S, n - 1)
         IN  shorter \cup {Append(s, x) : s \in {t \in shorter : Len(t) = n - 1}, x \in S}

\* A numpy array with ndim = 2: shape (K, cols).
Matrix(rows, cols) == [ndim |-> 2, shape |-> <<Len(rows), cols>>, rows |-> rows]

\* Arrays that are not 2-dimensional (a flat vector, a 3-d block).
Malformed ==
    { [ndim |-> 1, shape |-> <<2>>, rows |-> <<>>],
      [ndim |-> 3, shape |-> <<1, 1, 1>>, rows |-> <<>>] }

DescArrays(maxRows) ==
    {Matrix(r, c) : r \in SeqsUpTo(DescRows(1), maxRows), c \in {1}}
      \cup {Matrix(r, c) : r \in SeqsUpTo(DescRows(2), maxRows), c \in {2}}
      \cup Malformed

(***************************************************************************)
(* Helpers of the matchers.                                                *)
(***************************************************************************)
RECURSIVE GCD(_, _)
GCD(a, b) == IF b = 0 THEN a ELSE GCD(b, a % b)

\* The real number sqrt(nsq / dsq), dsq > 0, in lowest terms.
Quotient(nsq, dsq) ==
    LET g == GCD(nsq, dsq) IN [num |-> nsq \div g, den |-> dsq \div g]

\* The real number d whose square is dsq.
Distance(dsq) == [num |-> dsq, den |-> 1]

\* The literal 1 assigned to featurematch.distance.
ScoreOne == [num |-> 1, den |-> 1]

RECURSIVE SumSq(_, _, _)
SumSq(a, b, k) ==
    IF k = 0 THEN 0 ELSE (a[k] - b[k]) * (a[k] - b[k]) + SumSq(a, b, k - 1)

\* Mutant: the distance looks at the first column only.
SqDistFirstColumn(a, b) == SumSq(a, b, 1)

\* scipy's 'euclidean' metric between two rows, squared.
SqDist(a, b) == SumSq(a, b, Len(a))

\* scipy.spatial.distance.cdist(XA, XB, 'euclidean'), entries squared.
cdist(XA, XB) ==
    [i \in 1..Len(XA.rows) |-> [j \in 1..Len(XB.rows) |-> SqDist(XA.rows[i], XB.rows[j])]]

\* Mutant: on ties the highest index wins.
ArgMinLast(row) ==
    CHOOSE j \in 1..Len(row) :
        /\ \A k \in 1..Len(row) : row[j] <= row[k]
        /\ \A k \in (j + 1)..Len(row) : row[k] > row[j]

\* numpy argmin along a row: the first index holding the minimum (1-based).
ArgMin(row) ==
    CHOOSE j \in 1..Len(row) :
        /\ \A k \in 1..Len(row) : row[j] <= row[k]
        /\ \A k \in 1..(j - 1) : row[k] > row[j]

\* Mutant: the column counts are not compared.
ShapeAssertsNoColumns(d1, d2) == d1.ndim = 2 /\ d2.ndim = 2

\* The three assert statements that open both matchFeatures.
ShapeAsserts(d1, d2) ==
    /\ d1.ndim = 2
    /\ d2.ndim = 2
    /\ d1.shape[2] = d2.shape[2]

\* Mutant: `and` in place of `or`.
EitherEmptyAnd(d1, d2) == d1.shape[1] = 0 /\ d2.shape[1] = 0

\* if desc1.shape[0] == 0 or desc2.shape[0] == 0
EitherEmpty(d1, d2) == d1.shape[1] = 0 \/ d2.shape[1] = 0

DMatch(q, t, d) == [queryIdx |-> q, trainIdx |-> t, distance |-> d]

Returned(list, dist) ==
    [kind |-> "list", value |-> list, built |-> list, dist |-> dist]
FellOffEnd(list, dist) ==
    [kind |-> "None", value |-> <<>>, built |-> list, dist |-> dist]
Raised(exc, dist) ==
    [kind |-> exc, value |-> <<>>, built |-> <<>>, dist |-> dist]

\* What cdist and argmin(1) raise when the guards above let such input through:
\* cdist rejects differing column counts, argmin rejects an empty axis.
LibraryError(d1, d2) ==
    \/ d1.shape[2] # d2.shape[2]
    \/ (d1.shape[1] > 0 /\ d2.shape[1] = 0)

(***************************************************************************)
(* SSDFeatureMatcher.matchFeatures                                         *)
(***************************************************************************)
SSDLoop(d1, dist) ==
    [i \in 1..d1.shape[1] |->
        LET t == ArgMin(dist[i])
        IN  DMatch(i - 1, t - 1, Distance(dist[i][t]))]

SSDmatchFeatures(d1, d2) ==
    IF ~ShapeAsserts(d1, d2) THEN Raised("AssertionError", <<>>)
    ELSE IF EitherEmpty(d1, d2) THEN Returned(<<>>, <<>>)
    ELSE IF LibraryError(d1, d2) THEN Raised("ValueError", <<>>)
    ELSE LET dist == cdist(d1, d2)
         IN  Returned(SSDLoop(d1, dist), dist)

(***************************************************************************)
(* RatioFeatureMatcher.matchFeatures                                       *)
(***************************************************************************)
\* The constant written over the best distance.
Sentinel == 1000

\* Mutant: the best distance is left in place.
OverwriteBestNoop(dist, train) == dist

\* First loop: dist[i][train[i]] = 1000 for every query row.
OverwriteBest(dist, train) ==
    [i \in 1..Len(dist) |-> [dist[i] EXCEPT ![train[i]] = Sentinel * Sentinel]]

RatioLoop(d1, dist_1, second_dist, train) ==
    [i \in 1..d1.shape[1] |->
        DMatch(i - 1, train[i] - 1,
               IF second_dist[i] # 0 THEN Quotient(dist_1[i], second_dist[i])
               ELSE ScoreOne)]

RatiomatchFeatures(d1, d2) ==
    IF ~ShapeAsserts(d1, d2) THEN Raised("AssertionError", <<>>)
    ELSE IF EitherEmpty(d1, d2) THEN Returned(<<>>, <<>>)
    ELSE IF LibraryError(d1, d2) THEN Raised("ValueError", <<>>)
    ELSE LET dist   == cdist(d1, d2)
             train  == [i \in 1..d1.shape[1] |-> ArgMin(dist[i])]
             dist_1 == [i \in 1..d1.shape[1] |-> dist[i][train[i]]]
             dist2  == OverwriteBest(dist, train)
             second_dist == [i \in 1..d1.shape[1] |-> dist2[i][ArgMin(dist2[i])]]
         IN  \* the method ends after the last loop without a return statement
             FellOffEnd(RatioLoop(d1, dist_1, second_dist, train), dist2)

\* The detector's variables while another component runs.
HarrisIdle ==
    /\ image = <<>>
    /\ hpc = "idle"
    /\ harrisImage = <<>>
    /\ orientationImage = <<>>
    /\ harrisMaxImage = <<>>
    /\ features = <<>>
    /\ hy = 0
    /\ hx = 0

HarrisIdleButImage ==
    /\ hpc = "idle"
    /\ harrisImage = <<>>
    /\ orientationImage = <<>>
    /\ harrisMaxImage = <<>>
    /\ features = <<>>
    /\ hy = 0
    /\ hx = 0

\* The descriptors' variables while another component runs.
DescribeIdle ==
    /\ keypoints = <<>>
    /\ dcall = "idle"
    /\ dresult = [kind |-> "pending", rows |-> <<>>]
    /\ dtransMx = <<>>

(***************************************************************************)
(* The matcher as a state machine: one call on one pair of arrays.         *)
(***************************************************************************)
MatchIdle ==
    /\ desc1 = Matrix(<<>>, 1)
    /\ desc2 = Matrix(<<>>, 1)
    /\ mcall = "idle"
    /\ mresult = [kind |-> "pending", value |-> <<>>]
    /\ mbuilt = <<>>
    /\ mdist = <<>>

InitMatch ==
    /\ desc1 \in DescArrays(MaxQuery)
    /\ desc2 \in DescArrays(MaxTrain)
    /\ mcall = "none"
    /\ mresult = [kind |-> "pending", value |-> <<>>]
    /\ mbuilt = <<>>
    /\ mdist = <<>>
    /\ HarrisIdle
    /\ DescribeIdle

Finish(which, out) ==
    /\ mcall' = which
    /\ mresult' = [kind |-> out.kind, value |-> out.value]
    /\ mbuilt' = out.built
    /\ mdist' = out.dist
    /\ UNCHANGED <<desc1, desc2>>
    /\ UNCHANGED <<hvars, dvars>>

SSDMatch ==
    /\ mcall = "none"
    /\ Finish("SSD", SSDmatchFeatures(desc1, desc2))

RatioMatch ==
    /\ mcall = "none"
    /\ Finish("Ratio", RatiomatchFeatures(desc1, desc2))

NextMatch == SSDMatch \/ RatioMatch

SpecMatch == InitMatch /\ [][NextMatch]_vars


(***************************************************************************)
(* Images and the scipy.ndimage filters.  An array is a sequence of rows;  *)
(* pixel (y, x), 0-based as in the code, is img[y + 1][x + 1].             *)
(***************************************************************************)
Height(img) == Len(img)
Width(img) == IF Len(img) = 0 THEN 0 ELSE Len(img[1])
Px(img, y, x) == img[y + 1][x + 1]

\* An h x w array holding F(y, x) at pixel (y, x), fully evaluated.
Grid(h, w, F(_, _)) ==
    [y1 \in 1..h |-> [x1 \in 1..w |-> F(y1 - 1, x1 - 1)] \o <<>>] \o <<>>

\* Pixels of the input images: black and white, in B, G, R order.
Black == <<0, 0, 0>>
White == <<255, 255, 255>>

\* image.astype(np.float32); image /= 255.; cv2.cvtColor(image, COLOR_BGR2GRAY):
\* Y = 0.114 B + 0.587 G + 0.299 R of the channels divided by 255, here in
\* whole units of intensity 1.0 (exact for black and for white).
GrayPixel(p) == (114 * p[1] + 587 * p[2] + 299 * p[3]) \div (1000 * 255)
ToGray(img) == Grid(Height(img), Width(img), LAMBDA y, x : GrayPixel(Px(img, y, x)))

\* scipy.ndimage boundary mode 'reflect' (d c b a | a b c d | d c b a):
\* the in-bounds index that index i of an axis of length n reads.
Reflect(i, n) ==
    LET m == i % (2 * n) IN IF m < n THEN m ELSE 2 * n - 1 - m

InBounds(img, y, x) == y >= 0 /\ y < Height(img) /\ x >= 0 /\ x < Width(img)

\* The value a filter reads at (y, x), inside or outside the array:
\* mode 'reflect', or mode 'constant' with cval = 0.
Sample(img, y, x, mode) ==
    IF mode = "reflect"
    THEN Px(img, Reflect(y, Height(img)), Reflect(x, Width(img)))
    ELSE IF InBounds(img, y, x) THEN Px(img, y, x) ELSE 0

RECURSIVE Taps(_, _, _, _, _, _, _)
Taps(img, axis, weights, mode, y, x, k) ==
    IF k = 0 THEN 0
    ELSE LET off == k - (Len(weights) + 1) \div 2
             v   == IF axis = 0 THEN Sample(img, y + off, x, mode)
                    ELSE Sample(img, y, x + off, mode)
         IN  weights[k] * v + Taps(img, axis, weights, mode, y, x, k - 1)

\* scipy.ndimage.correlate1d(img, weights, axis, mode=mode), origin 0.
Correlate1d(img, axis, weights, mode) ==
    Grid(Height(img), Width(img),
         LAMBDA y, x : Taps(img, axis, weights, mode, y, x, Len(weights)))

\* scipy.ndimage.sobel(img, axis, mode=mode): the derivative [-1, 0, 1] along
\* axis, then the smoothing [1, 2, 1] along the other axis.
SobelMode(img, axis, mode) ==
    Correlate1d(Correlate1d(img, axis, <<-1, 0, 1>>, mode), 1 - axis, <<1, 2, 1>>, mode)

\* Mutant: mode='constant' (zero padding) in place of mode='reflect'.
SobelConstant(img, axis) == SobelMode(img, axis, "constant")

\* scipy.ndimage.sobel(srcImage, axis=axis, mode='reflect')
Sobel(img, axis) == SobelMode(img, axis, "reflect")

\* The 1-d kernel of gaussian_filter(sigma=.5): radius int(4 * 0.5 + 0.5) = 2,
\* weights exp(-2 k^2) normalised = 0.0003, 0.1065, 0.7866, 0.1065, 0.0003,
\* rounded to eighths.  A 2-d pass multiplies the values by GaussUnit^2.
GaussKernel == <<0, 1, 6, 1, 0>>
GaussUnit == 8

\* scipy.ndimage.gaussian_filter(img, sigma=.5): one 1-d pass per axis,
\* default mode 'reflect'.
GaussianFilter(img) ==
    Correlate1d(Correlate1d(img, 0, GaussKernel, "reflect"), 1, GaussKernel, "reflect")

Product(a, b) == Grid(Height(a), Width(a), LAMBDA y, x : Px(a, y, x) * Px(b, y, x))

\* np.arctan2(iy, ix) * 180 / np.pi, kept exact as the direction it measures:
\* [dy, dx] in lowest terms stands for the angle of the vector (dx, dy);
\* arctan2(0, 0) = 0 is the direction of (1, 0).
Arctan2Deg(iy, ix) ==
    IF iy = 0 /\ ix = 0 THEN [dy |-> 0, dx |-> 1]
    ELSE LET g == GCD(IF iy < 0 THEN -iy ELSE iy, IF ix < 0 THEN -ix ELSE ix)
         IN  [dy |-> iy \div g, dx |-> ix \div g]

\* harrisImage = det - 0.1 * trace^2 is stored multiplied by HarrisUnit:
\* 10 for the 0.1, GaussUnit^4 for the two smoothed factors of each product.
HarrisUnit == 40960

(***************************************************************************)
(* HarrisKeypointDetector.computeHarrisValues                              *)
(***************************************************************************)
computeHarrisValues(srcImage) ==
    LET index_x == Sobel(srcImage, 1)
        index_y == Sobel(srcImage, 0)
        A == GaussianFilter(Product(index_x, index_x))
        B == GaussianFilter(Product(index_y, index_x))
        C == GaussianFilter(Product(index_y, index_y))
        harris(y, x) ==
            LET det   == Px(A, y, x) * Px(C, y, x) - Px(B, y, x) * Px(B, y, x)
                trace == Px(A, y, x) + Px(C, y, x)
            IN  10 * det - trace * trace
    IN  [harrisImage |-> Grid(Height(srcImage), Width(srcImage), harris),
         orientationImage |->
             Grid(Height(srcImage), Width(srcImage),
                  LAMBDA y, x : Arctan2Deg(Px(index_y, y, x), Px(index_x, y, x)))]

(***************************************************************************)
(* HarrisKeypointDetector.computeLocalMaxima                               *)
(***************************************************************************)
\* The side of the maximum filter's window.
MaxFilterSize == 7

MaxOfSet(S) == CHOOSE m \in S : \A n \in S : n <= m

\* scipy.ndimage.maximum_filter1d(img, size, axis, mode=mode), origin 0: the
\* window of an odd size reaches size \div 2 to either side.
MaximumFilter1d(img, size, axis, mode) ==
    Grid(Height(img), Width(img),
         LAMBDA y, x :
            MaxOfSet({ IF axis = 0 THEN Sample(img, y + off, x, mode)
                       ELSE Sample(img, y, x + off, mode) :
                       off \in (0 - size \div 2)..(size \div 2) }))

\* maximum_filter with a size tuple runs one 1-d maximum filter per axis.
MaximumFilterMode(img, size, mode) ==
    MaximumFilter1d(MaximumFilter1d(img, size, 0, mode), size, 1, mode)

\* Mutant: mode='constant' (cval 0) in place of the default 'reflect'.
MaximumFilterConstant(img) == MaximumFilterMode(img, MaxFilterSize, "constant")

\* scipy.ndimage.filters.maximum_filter(harrisImage, size=(7,7))
MaximumFilter(img) == MaximumFilterMode(img, MaxFilterSize, "reflect")

computeLocalMaxima(harris) ==
    LET local_max == MaximumFilter(harris)
    IN  Grid(Height(harris), Width(harris),
             LAMBDA y, x : Px(harris, y, x) = Px(local_max, y, x))

(***************************************************************************)
(* HarrisKeypointDetector.detectKeypoints, one loop iteration per step.    *)
(***************************************************************************)
\* f.size
KeypointSize == 10

\* Mutant: the point is stored as (row, column).
KeyPointRowFirst(y, x, orientation, harris) ==
    [pt |-> <<y, x>>, size |-> KeypointSize,
     angle |-> Px(orientation, y, x), response |-> Px(harris, y, x)]

\* The cv2.KeyPoint filled in for pixel (y, x).
KeyPoint(y, x, orientation, harris) ==
    [pt |-> <<x, y>>, size |-> KeypointSize,
     angle |-> Px(orientation, y, x), response |-> Px(harris, y, x)]

MaxHarrisH == 2
MaxHarrisW == 3

Images(maxH, maxW, pixels) ==
    UNION { [1..h -> [1..w -> pixels]] : h \in 1..maxH, w \in 1..maxW }

InitHarris ==
    /\ MatchIdle
    /\ DescribeIdle
    /\ image \in Images(MaxHarrisH, MaxHarrisW, {Black, White})
    /\ hpc = "start"
    /\ harrisImage = <<>>
    /\ orientationImage = <<>>
    /\ harrisMaxImage = <<>>
    /\ features = <<>>
    /\ hy = 0
    /\ hx = 0

\* Lines 150-168: the two fields and the mask, then the loops start.
DetectBegin ==
    /\ hpc = "start"
    /\ LET out == computeHarrisValues(ToGray(image))
       IN  /\ harrisImage' = out.harrisImage
           /\ orientationImage' = out.orientationImage
           /\ harrisMaxImage' = computeLocalMaxima(out.harrisImage)
    /\ features' = <<>>
    /\ hy' = 0
    /\ hx' = 0
    /\ hpc' = "loop"
    /\ UNCHANGED <<image, mvars, dvars>>

\* One iteration of `for x in range(width)` inside `for y in range(height)`.
DetectVisit ==
    /\ hpc = "loop"
    /\ hy < Height(image)
    /\ features' = IF Px(harrisMaxImage, hy, hx)
                   THEN Append(features, KeyPoint(hy, hx, orientationImage, harrisImage))
                   ELSE features
    /\ IF hx + 1 < Width(image)
       THEN hx' = hx + 1 /\ hy' = hy
       ELSE hx' = 0 /\ hy' = hy + 1
    /\ UNCHANGED <<image, hpc, harrisImage, orientationImage, harrisMaxImage, mvars, dvars>>

\* return features
DetectReturn ==
    /\ hpc = "loop"
    /\ hy >= Height(image)
    /\ hpc' = "done"
    /\ UNCHANGED <<image, harrisImage, orientationImage, harrisMaxImage, features,
                   hy, hx, mvars, dvars>>

NextHarris == DetectBegin \/ DetectVisit \/ DetectReturn

SpecHarris == InitHarris /\ [][NextHarris]_vars

(***************************************************************************)
(* computeLocalMaxima called on its own, on response fields that need not  *)
(* come from an image: a zero field with up to two pixels raised or        *)
(* lowered.                                                                *)
(***************************************************************************)
MaxFieldH == 2
MaxFieldW == 8

PeakValues == {-1, 1, 2}

Field(h, w, p1, v1, p2, v2) ==
    Grid(h, w, LAMBDA y, x : IF <<y, x>> = p2 THEN v2
                             ELSE IF <<y, x>> = p1 THEN v1 ELSE 0)

FieldsOfShape(h, w) ==
    { Field(h, w, p1, v1, p2, v2) :
        p1 \in (0..(h - 1)) \X (0..(w - 1)), v1 \in PeakValues,
        p2 \in (0..(h - 1)) \X (0..(w - 1)), v2 \in PeakValues \cup {0} }

\* Wide fields and, transposed, tall ones.
Fields(maxH, maxW) ==
    UNION { FieldsOfShape(h, w) \cup FieldsOfShape(w, h) : h \in 1..maxH, w \in 1..maxW }

InitLocalMax ==
    /\ MatchIdle
    /\ DescribeIdle
    /\ image = <<>>
    /\ hpc = "field"
    /\ harrisImage \in Fields(MaxFieldH, MaxFieldW)
    /\ orientationImage = <<>>
    /\ harrisMaxImage = <<>>
    /\ features = <<>>
    /\ hy = 0
    /\ hx = 0

LocalMaximaCall ==
    /\ hpc = "field"
    /\ harrisMaxImage' = computeLocalMaxima(harrisImage)
    /\ hpc' = "masked"
    /\ UNCHANGED <<image, harrisImage, orientationImage, features, hy, hx, mvars, dvars>>

NextLocalMax == LocalMaximaCall

SpecLocalMax == InitLocalMax /\ [][NextLocalMax]_vars

(***************************************************************************)
(* SimpleFeatureDescriptor.describeFeatures                                *)
(***************************************************************************)
DescArray(rows) == [kind |-> "array", rows |-> rows]
DescRaised(exc) == [kind |-> exc, rows |-> <<>>]

\* The value the double loop reads for window position (rows, columns), the
\* last thing it computes before the store.
SimplePixel(grayImage, rows, columns) ==
    IF columns > -1 /\ columns < Width(grayImage) /\ rows > -1 /\ rows < Height(grayImage)
    THEN Px(grayImage, rows, columns)
    ELSE 0

\* The loops run for the first keypoint up to `desc[i][j] = pindex_xel`.  No j
\* is bound in the method or in the module, so the first store raises
\* NameError; with no keypoints the loop body never runs and the zero-row
\* array is returned.
SimpledescribeFeatures(img, kps) ==
    IF Len(kps) = 0 THEN DescArray(<<>>) ELSE DescRaised("NameError")

(***************************************************************************)
(* MOPSFeatureDescriptor.describeFeatures                                  *)
(***************************************************************************)
windowSize == 8

\* Homogeneous 4x4 matrices of the transformations module.  The entries of a
\* matrix that involves the scale 0.2 are kept in fifths (ScaleDen).
ScaleDen == 5

Mat4(F(_, _)) == [r \in 1..4 |-> [c \in 1..4 |-> F(r, c)] \o <<>>] \o <<>>

Dot4(A, B) ==
    Mat4(LAMBDA r, c : A[r][1] * B[1][c] + A[r][2] * B[2][c]
                       + A[r][3] * B[3][c] + A[r][4] * B[4][c])

\* cos and sin of an angle in degrees that is a multiple of 90.
CosDeg(a) == CASE a % 360 = 0 -> 1 [] a % 360 = 180 -> -1 [] OTHER -> 0
SinDeg(a) == CASE a % 360 = 90 -> 1 [] a % 360 = 270 -> -1 [] OTHER -> 0

\* transformations.get_trans_mx(np.array([tx, ty, 0]))
get_trans_mx(tx, ty) ==
    Mat4(LAMBDA r, c : IF r = c THEN 1
                       ELSE IF c = 4 /\ r = 1 THEN tx
                       ELSE IF c = 4 /\ r = 2 THEN ty ELSE 0)

\* transformations.get_rot_mx(0, 0, angle_z), angle_z given in degrees.
get_rot_mx(deg) ==
    Mat4(LAMBDA r, c :
            CASE r = 1 /\ c = 1 -> CosDeg(deg)
              [] r = 1 /\ c = 2 -> 0 - SinDeg(deg)
              [] r = 2 /\ c = 1 -> SinDeg(deg)
              [] r = 2 /\ c = 2 -> CosDeg(deg)
              [] OTHER -> IF r = c THEN 1 ELSE 0)

\* transformations.get_scale_mx(0.2, 0.2, 1), times ScaleDen.
get_scale_mx5 ==
    Mat4(LAMBDA r, c : IF r # c THEN 0 ELSE IF r <= 2 THEN 1 ELSE ScaleDen)

\* temp = translation_2 . scale . rotation . translation_1 and the 2x3
\* transMx cut from it (rows 0-1, columns 0, 1, 3), times ScaleDen.
\* Mutant: the four matrices are multiplied in the opposite order.
TransMx5Reversed(f) ==
    LET translation_1 == get_trans_mx(0 - f.pt[1], 0 - f.pt[2])
        rotation == get_rot_mx(0 - f.angle)
        translation_2 == get_trans_mx(4, 4)
        temp == Dot4(translation_1, Dot4(rotation, Dot4(get_scale_mx5, translation_2)))
    IN  << <<temp[1][1], temp[1][2], temp[1][4]>>,
           <<temp[2][1], temp[2][2], temp[2][4]>> >>

TransMx5(f) ==
    LET translation_1 == get_trans_mx(0 - f.pt[1], 0 - f.pt[2])
        rotation == get_rot_mx(0 - f.angle)
        translation_2 == get_trans_mx(4, 4)
        temp == Dot4(translation_2, Dot4(get_scale_mx5, Dot4(rotation, translation_1)))
    IN  << <<temp[1][1], temp[1][2], temp[1][4]>>,
           <<temp[2][1], temp[2][2], temp[2][4]>> >>

\* cv2.warpAffine(src, M, (size, size), flags=cv2.INTER_LINEAR): M maps source
\* to destination, so destination pixel (u, v) reads the source at M^-1 (u, v);
\* outside the source reads the constant border 0.  For the rotations by
\* multiples of 90 degrees and whole keypoint positions used here the source
\* point is a whole pixel, where bilinear interpolation returns that pixel.
warpAffine(src, M5, size) ==
    LET a == M5[1][1]
        b == M5[1][2]
        c == M5[2][1]
        d == M5[2][2]
        tx == M5[1][3]
        ty == M5[2][3]
        det == a * d - b * c
        read(v, u) ==
            LET ru == ScaleDen * u - tx
                rv == ScaleDen * v - ty
                sx == (d * ru - b * rv) \div det
                sy == (a * rv - c * ru) \div det
            IN  IF InBounds(src, sy, sx) THEN Px(src, sy, sx) ELSE 0
    IN  Grid(size, size, read)

\* destImage.flatten(): row-major.
Flatten(img) ==
    [k \in 1..(Height(img) * Width(img)) |->
        Px(img, (k - 1) \div Width(img), (k - 1) % Width(img))] \o <<>>

RECURSIVE SumSeq(_, _)
SumSeq(s, k) == IF k = 0 THEN 0 ELSE s[k] + SumSeq(s, k - 1)

Total(s) == SumSeq(s, Len(s))
TotalSq(s) == SumSeq([k \in 1..Len(s) |-> s[k] * s[k]], Len(s))

\* n^2 times the variance of the entries of s.
VarNum(s) == Len(s) * TotalSq(s) - Total(s) * Total(s)

\* A descriptor entry [num, densq] stands for the real num / sqrt(densq).
Zero == [num |-> 0, densq |-> 1]

\* Mutant: the mean is not subtracted.
NormalizeNoMean(flat) ==
    LET n == Len(flat)
        var == VarNum(flat)
    IN  IF var = 0 THEN [k \in 1..n |-> Zero]
        ELSE [k \in 1..n |-> [num |-> n * flat[k], densq |-> var]] \o <<>>

\* Lines 309-312 on the flattened patch.  The entries are whole multiples of
\* 1 / GaussUnit^2, so std < 1e-10 exactly when the variance is 0; otherwise
\* (x - mean) / std = (n x - sum) / sqrt(n sumsq - sum^2).
Normalize(flat) ==
    LET n == Len(flat)
        sum == Total(flat)
        var == VarNum(flat)
    IN  IF var = 0 THEN [k \in 1..n |-> Zero]
        ELSE [k \in 1..n |-> [num |-> n * flat[k] - sum, densq |-> var]] \o <<>>

\* The flattened 8x8 patch resampled around keypoint f.
MOPSPatch(grayImage, f) ==
    LET transMx == TransMx5(f)
    IN  Flatten(warpAffine(grayImage, transMx, windowSize))

\* The transMx of every loop iteration, in keypoint order.
MOPSTransforms(kps) == [i \in 1..Len(kps) |-> TransMx5(kps[i])] \o <<>>

MOPSdescribeFeatures(img, kps) ==
    LET grayImage == GaussianFilter(ToGray(img))
    IN  DescArray([i \in 1..Len(kps) |-> Normalize(MOPSPatch(grayImage, kps[i]))])

(***************************************************************************)
(* The descriptors as a state machine: one call on one image and one       *)
(* keypoint list.                                                          *)
(***************************************************************************)
DescImgH == 6
DescImgW == 6
MaxKeypoints == 2

\* Black images with up to two white columns, and black images with one
\* white pixel.
StripeImages(h, w) ==
    { [y1 \in 1..h |-> [x1 \in 1..w |-> IF x1 \in {c1, c2} THEN White ELSE Black]] :
        c1 \in 0..w, c2 \in 0..w }
DotImages(h, w) ==
    { [y1 \in 1..h |-> [x1 \in 1..w |-> IF <<y1, x1>> = q THEN White ELSE Black]] :
        q \in (1..h) \X (1..w) }

DescKeyPoint(x, y, deg) == [pt |-> <<x, y>>, size |-> KeypointSize, angle |-> deg, response |-> 0]

DescKeyPoints ==
    { DescKeyPoint(0, 0, 0), DescKeyPoint(5, 0, 90), DescKeyPoint(2, 5, 180),
      DescKeyPoint(5, 5, -90) }

InitDescribe ==
    /\ MatchIdle
    /\ HarrisIdleButImage
    /\ image \in StripeImages(DescImgH, DescImgW) \cup DotImages(DescImgH, DescImgW)
    /\ keypoints \in SeqsUpTo(DescKeyPoints, MaxKeypoints)
    /\ dcall = "none"
    /\ dresult = [kind |-> "pending", rows |-> <<>>]
    /\ dtransMx = <<>>

SimpleDescribe ==
    /\ dcall = "none"
    /\ dcall' = "Simple"
    /\ dresult' = SimpledescribeFeatures(image, keypoints)
    /\ UNCHANGED <<keypoints, dtransMx, hvars, mvars>>

MOPSDescribe ==
    /\ dcall = "none"
    /\ dcall' = "MOPS"
    /\ dresult' = MOPSdescribeFeatures(image, keypoints)
    /\ dtransMx' = MOPSTransforms(keypoints)
    /\ UNCHANGED <<keypoints, hvars, mvars>>

NextDescribe == SimpleDescribe \/ MOPSDescribe

SpecDescribe == InitDescribe /\ [][NextDescribe]_vars

(***************************************************************************)
(* Claims about the matchers (checked under SpecMatch).                    *)
(***************************************************************************)
MatchDone == mcall \in {"SSD", "Ratio"}
BothMatrices == desc1.ndim = 2 /\ desc2.ndim = 2
WellShaped == BothMatrices /\ desc1.shape[2] = desc2.shape[2]
K1 == desc1.shape[1]
K2 == desc2.shape[1]

\* The squared distances from query row i to every train row, from the inputs.
RowDistances(i) == [j \in 1..K2 |-> SqDist(desc1.rows[i], desc2.rows[j])]

MinOf(S) == CHOOSE m \in S : \A n \in S : m <= n

\* d1 <= d2, the two smallest entries of a row of at least two distances.
Smallest(row) == MinOf({row[j] : j \in 1..Len(row)})
SecondSmallest(row) ==
    LET d1 == Smallest(row)
        at == {j \in 1..Len(row) : row[j] = d1}
    IN  IF Cardinality(at) >= 2 THEN d1
        ELSE MinOf({row[j] : j \in (1..Len(row)) \ at})

ExpectedRatio(row) ==
    IF SecondSmallest(row) # 0 THEN Quotient(Smallest(row), SecondSmallest(row))
    ELSE ScoreOne

\* C1 (as claimed): after RatioFeatureMatcher.matchFeatures on non-empty
\* matrices of equal column count, the score emitted for every query row i is
\* d1/d2 when d2 # 0 and 1 when d2 = 0, d1 <= d2 being the two smallest
\* distances from row i to the actual train rows, whatever their magnitude.
C1_RatioScoreIsD1OverD2 ==
    (mcall = "Ratio" /\ WellShaped /\ K1 >= 1 /\ K2 >= 2) =>
        /\ Len(mbuilt) = K1
        /\ \A i \in 1..K1 : mbuilt[i].distance = ExpectedRatio(RowDistances(i))

\* C2: SSDFeatureMatcher.matchFeatures on non-empty matrices of equal column
\* count returns exactly K1 matches in query order; match i names the lowest
\* train index minimising the distance to query row i and carries that
\* minimum distance as its score.
C2_SSDBestMatch ==
    (mcall = "SSD" /\ WellShaped /\ K1 >= 1 /\ K2 >= 1) =>
        /\ mresult.kind = "list"
        /\ Len(mresult.value) = K1
        /\ \A i \in 1..K1 :
             LET m == mresult.value[i]
                 d == RowDistances(i)
             IN  /\ m.queryIdx = i - 1
                 /\ m.trainIdx + 1 \in 1..K2
                 /\ \A k \in 1..K2 : d[m.trainIdx + 1] <= d[k]
                 /\ \A k \in 1..m.trainIdx : d[k] > d[m.trainIdx + 1]
                 /\ m.distance = Distance(Smallest(d))

\* C2 witness: two query rows share one train index, and the first of them
\* had a tie between two train rows.
C2_Witness ==
    /\ mcall = "SSD" /\ mresult.kind = "list" /\ Len(mresult.value) = 2
    /\ mresult.value[1].trainIdx = mresult.value[2].trainIdx
    /\ K2 = 2 /\ RowDistances(1)[1] = RowDistances(1)[2]
    /\ RowDistances(2)[1] # RowDistances(2)[2]

\* C3 (as claimed): whenever either of the two descriptor matrices has zero
\* rows, both matchers return an empty list and raise nothing.
C3_EmptyInputNeverRaises ==
    (MatchDone /\ BothMatrices /\ (K1 = 0 \/ K2 = 0)) =>
        (mresult.kind = "list" /\ mresult.value = <<>>)

\* C3 (amended): when both arrays are 2-dimensional with equal column counts
\* and either has zero rows, both matchers return an empty list and raise
\* nothing.
C3_EmptyInputWellShaped ==
    (MatchDone /\ WellShaped /\ (K1 = 0 \/ K2 = 0)) =>
        (mresult.kind = "list" /\ mresult.value = <<>>)

\* C3 witness: a non-empty query set matched against an empty train set.
C3_Witness ==
    /\ MatchDone /\ WellShaped /\ K1 >= 1 /\ K2 = 0
    /\ mresult.kind = "list" /\ mresult.value = <<>>

\* C4: when desc1 or desc2 is not 2-dimensional, or their column counts
\* differ, both matchers fail their precondition: no list is returned, no
\* match is built and no distance has been computed.
C4_PreconditionRejects ==
    (MatchDone /\ ~WellShaped) =>
        /\ mresult.kind = "AssertionError"
        /\ mresult.value = <<>>
        /\ mbuilt = <<>>
        /\ mdist = <<>>

\* C4 witness: two non-empty matrices whose column counts differ were rejected.
C4_Witness ==
    /\ MatchDone /\ BothMatrices /\ desc1.shape[2] # desc2.shape[2]
    /\ K1 >= 1 /\ K2 >= 1
    /\ mresult.kind = "AssertionError"

NoDuplicateRows(d) ==
    \A i, j \in 1..Len(d.rows) : i # j => d.rows[i] # d.rows[j]

\* C7: matching a non-empty set without duplicate rows against itself with
\* the SSD matcher gives, for every row i, query index = train index = i and
\* score 0.
C7_SSDSelfMatch ==
    (mcall = "SSD" /\ desc1 = desc2 /\ desc1.ndim = 2 /\ K1 >= 1 /\ NoDuplicateRows(desc1)) =>
        /\ mresult.kind = "list"
        /\ Len(mresult.value) = K1
        /\ \A i \in 1..K1 :
             /\ mresult.value[i].queryIdx = i - 1
             /\ mresult.value[i].trainIdx = i - 1
             /\ mresult.value[i].distance = Distance(0)

\* C7 witness: a set of two distinct two-column rows was matched against itself.
C7_Witness ==
    /\ mcall = "SSD" /\ desc1 = desc2 /\ desc1.ndim = 2 /\ K1 = 2
    /\ desc1.shape[2] = 2 /\ NoDuplicateRows(desc1)
    /\ mresult.kind = "list"

(***************************************************************************)
(* Claims about the detector.                                              *)
(***************************************************************************)
Lo(a, b) == IF a < b THEN a ELSE b
Hi(a, b) == IF a > b THEN a ELSE b

\* The centred 7x7 window of pixel (y, x), clipped to the h x w array.
ClippedWindow(h, w, y, x) ==
    (Hi(0, y - 3)..Lo(h - 1, y + 3)) \X (Hi(0, x - 3)..Lo(w - 1, x + 3))

\* C5 (SpecLocalMax): mask[y, x] is true iff R[y, x] equals the maximum of R
\* over the centred 7x7 window clipped to the array, at every pixel of every
\* field, borders and arrays smaller than the window included; ties are all
\* marked and no threshold is applied.
C5_LocalMaximaClippedWindow ==
    hpc = "masked" =>
        LET h == Height(harrisImage)
            w == Width(harrisImage)
        IN  \A y \in 0..(h - 1), x \in 0..(w - 1) :
                Px(harrisMaxImage, y, x) <=>
                    (\A q \in ClippedWindow(h, w, y, x) :
                        Px(harrisImage, q[1], q[2]) <= Px(harrisImage, y, x))

\* C5 witness: an 8-wide field where two neighbouring border pixels tie for
\* the maximum and are both marked, while a pixel of their window is not and a
\* pixel at the far border, outside their window, is.
C5_Witness ==
    /\ hpc = "masked" /\ Width(harrisImage) = 8
    /\ Px(harrisImage, 0, 0) = 2 /\ Px(harrisImage, 0, 1) = 2
    /\ Px(harrisMaxImage, 0, 0) /\ Px(harrisMaxImage, 0, 1)
    /\ ~Px(harrisMaxImage, 0, 3)
    /\ Px(harrisMaxImage, 0, 7)

HarrisRan == hpc \in {"loop", "done"}

Pixels(img) == (0..(Height(img) - 1)) \X (0..(Width(img) - 1))

\* C6 (SpecHarris): when detectKeypoints returns, the list holds exactly one
\* keypoint per pixel whose mask is true and none other, in row-major order,
\* each with pt = (x, y), size 10, angle = orientation[y][x] and
\* response = harris[y][x].
C6_KeypointsRowMajor ==
    hpc = "done" =>
        /\ \A k \in 1..Len(features) :
             LET f == features[k]
                 x == f.pt[1]
                 y == f.pt[2]
             IN  /\ <<y, x>> \in Pixels(image)
                 /\ Px(harrisMaxImage, y, x)
                 /\ f.size = 10
                 /\ f.angle = Px(orientationImage, y, x)
                 /\ f.response = Px(harrisImage, y, x)
        /\ \A k, l \in 1..Len(features) :
             k < l => \/ features[k].pt[2] < features[l].pt[2]
                      \/ /\ features[k].pt[2] = features[l].pt[2]
                         /\ features[k].pt[1] < features[l].pt[1]
        /\ \A q \in Pixels(image) :
             Px(harrisMaxImage, q[1], q[2]) =>
                 \E k \in 1..Len(features) : features[k].pt = <<q[2], q[1]>>

\* C6 witness: a returned list of at least two keypoints, one of them off the
\* diagonal, from an image that also has a suppressed pixel.
C6_Witness ==
    /\ hpc = "done" /\ Len(features) >= 2
    /\ \E k \in 1..Len(features) : features[k].pt[1] > features[k].pt[2]
    /\ \E q \in Pixels(image) : ~Px(harrisMaxImage, q[1], q[2])

Uniform(img) == \A p, q \in Pixels(img) : Px(img, p[1], p[2]) = Px(img, q[1], q[2])

\* C8 (SpecHarris): for a uniform image the Harris response is 0 at every
\* pixel, every pixel is marked a local maximum, and detectKeypoints returns
\* height x width keypoints.
C8_UniformImage ==
    (HarrisRan /\ Uniform(image)) =>
        /\ \A q \in Pixels(image) :
             /\ Px(harrisImage, q[1], q[2]) = 0
             /\ Px(harrisMaxImage, q[1], q[2])
        /\ hpc = "done" => Len(features) = Height(image) * Width(image)

\* C8 witness: detectKeypoints returned six keypoints for a white 2x3 image.
C8_Witness ==
    /\ hpc = "done" /\ Uniform(image) /\ Px(image, 0, 0) = White
    /\ Height(image) = 2 /\ Width(image) = 3
    /\ Len(features) = 6

(***************************************************************************)
(* Claims about the descriptors (checked under SpecDescribe).              *)
(***************************************************************************)
AllEqual(s) == \A k \in 1..Len(s) : s[k] = s[1]

\* row is patch minus its mean, divided by its standard deviation: the values
\* num / sqrt(densq) share one positive denominator, have mean 0 and variance
\* 1, and are an increasing affine function of the patch (checked against two
\* entries a, b of the patch that differ).
IsStandardised(row, patch) ==
    LET n == Len(patch)
        a == 1
        b == CHOOSE k \in 1..n : patch[k] # patch[1]
        nums == [k \in 1..n |-> row[k].num] \o <<>>
    IN  /\ row[1].densq > 0
        /\ \A k \in 1..n : row[k].densq = row[1].densq
        /\ Total(nums) = 0
        /\ TotalSq(nums) = n * row[1].densq
        /\ (nums[b] - nums[a]) * (patch[b] - patch[a]) > 0
        /\ \A k \in 1..n :
             (nums[k] - nums[a]) * (patch[b] - patch[a])
               = (nums[b] - nums[a]) * (patch[k] - patch[a])

Window5x5(grayImage, f) ==
    [k \in 1..25 |->
        LET y == f.pt[2] - 2 + ((k - 1) \div 5)
            x == f.pt[1] - 2 + ((k - 1) % 5)
        IN  IF InBounds(grayImage, y, x) THEN Px(grayImage, y, x) ELSE 0]

\* C10 (as claimed): SimpleFeatureDescriptor.describeFeatures completes
\* without error and returns K rows of 25 entries, row i being the 5x5 window
\* of intensities centred on keypoint i, row-major, 0 outside the image.
C10_SimpleWindowRows ==
    dcall = "Simple" =>
        /\ dresult.kind = "array"
        /\ Len(dresult.rows) = Len(keypoints)
        /\ \A i \in 1..Len(keypoints) :
             dresult.rows[i] = Window5x5(ToGray(image), keypoints[i])

\* Rotate(-angle) applied to (dx, dy), angle in degrees.
RotateMinus(angle, dx, dy) ==
    << CosDeg(angle) * dx + SinDeg(angle) * dy,
       CosDeg(angle) * dy - SinDeg(angle) * dx >>

\* The image of source point (px, py) under a 2x3 matrix kept in fifths, in
\* fifths of an output pixel.
Apply5(M5, px, py) ==
    << M5[1][1] * px + M5[1][2] * py + M5[1][3],
       M5[2][1] * px + M5[2][2] * py + M5[2][3] >>

Offsets == (-2..2) \X (-2..2)

\* C11: the 2x3 matrix handed to the resampler for keypoint (x, y, angle) is
\* Translate(+4,+4) . Scale(0.2) . Rotate(-angle) . Translate(-x,-y): its
\* linear part is 0.2 Rotate(-angle), the keypoint itself maps to (4, 4), and
\* the source point at offset (dx, dy) from the keypoint maps to
\* (4, 4) + 0.2 Rotate(-angle)(dx, dy).
C11_MOPSTransform ==
    dcall = "MOPS" =>
        /\ Len(dtransMx) = Len(keypoints)
        /\ \A i \in 1..Len(keypoints) :
             LET f == keypoints[i]
                 M == dtransMx[i]
             IN  /\ <<M[1][1], M[2][1]>> = RotateMinus(f.angle, 1, 0)
                 /\ <<M[1][2], M[2][2]>> = RotateMinus(f.angle, 0, 1)
                 /\ Apply5(M, f.pt[1], f.pt[2]) = <<4 * ScaleDen, 4 * ScaleDen>>
                 /\ \A o \in Offsets :
                      LET r == RotateMinus(f.angle, o[1], o[2])
                      IN  Apply5(M, f.pt[1] + o[1], f.pt[2] + o[2])
                            = <<4 * ScaleDen + r[1], 4 * ScaleDen + r[2]>>

\* C11 witness: the matrices of two keypoints away from the origin, one
\* turned by 90 and one by 180 degrees, were handed to the resampler.
C11_Witness ==
    /\ dcall = "MOPS" /\ Len(dtransMx) = 2
    /\ keypoints[1].angle = 90 /\ keypoints[1].pt = <<5, 0>>
    /\ keypoints[2].angle = 180 /\ keypoints[2].pt = <<2, 5>>
    /\ dtransMx[1] # dtransMx[2]

\* The (query_index, train_index) pairs of a list of matches, in order.
Pairs(matches) == [i \in 1..Len(matches) |-> <<matches[i].queryIdx, matches[i].trainIdx>>]

Init == InitMatch \/ InitHarris \/ InitLocalMax \/ InitDescribe

Next == NextMatch \/ NextHarris \/ NextLocalMax \/ NextDescribe

Spec == Init /\ [][Next]_vars

=============================================================================
